---- MODULE Spec2Model ----
(***************************************************************************)
(* Model of plugins/inventory/inventory.py, the vCloud Director dynamic    *)
(* inventory script (VcdInventory), and of                                 *)
(* plugins/modules/vcd_vapp_network.py, the module that adds and deletes   *)
(* vApp networks (VappNetwork).  One invocation of the script is a         *)
(* run: it reads its arguments and credentials, decides whether the cache  *)
(* file has to be refreshed from the upstream API, and prints one JSON     *)
(* document.  The cache file and the cache directory outlive a run.        *)
(*                                                                         *)
(* Conventions.  A Python dict is a TLA+ function on its key set (the      *)
(* script never observes insertion order: dict equality and                *)
(* json.dumps(sort_keys=True) both ignore it).  A Python list is a         *)
(* sequence.  A JSON text is a sequence of <<key, value>> pairs in sorted  *)
(* key order, which is what json.dumps(sort_keys=True) emits.  A string    *)
(* the script takes apart (an environment value, a metadata value) is a    *)
(* sequence of characters or tokens; a string it only copies is a TLA+     *)
(* string.  Python None / JSON null is the string "None".                  *)
(***************************************************************************)
EXTENDS Integers, Sequences, FiniteSets, TLC

\* ------------------------------------------------------------------ bounds
\* Number of invocations of the script in one behaviour.
MaxRuns == 2

\* ------------------------------------------------------- program constants
None == "None"

EmptyMap == [x \in {} |-> x]

GLOBALS ==
    [ansible_become |-> "true",
     ansible_python_interpreter |-> "/usr/bin/python3",
     ansible_ssh_common_args |-> "-o StrictHostKeyChecking=no -o ProxyCommand=\"ssh -o StrictHostKeyChecking=no -o UserKnownHostsFile=/dev/null -W %h:%p $ANSIBLE_REMOTE_USER@public-jumphost-ip\""]

OVERRIDE ==
    [k \in {"jumphost", "server-01", "server-02"} |->
        CASE k = "jumphost"  -> [ansible_host |-> "public-jumphost-ip",
                                 ansible_ssh_common_args |-> "-o StrictHostKeyChecking=no"]
          [] k = "server-01" -> [ansible_host |-> "10.10.0.21"]
          [] k = "server-02" -> [ansible_host |-> "10.10.0.22"]]

_empty_inventory ==
    [k \in {"server", "_meta"} |->
        IF k = "server" THEN [children |-> <<>>, hosts |-> <<>>]
                        ELSE [hostvars |-> EmptyMap]]

cache_max_age == 900

\* The header map of a fresh VcdInventory: Accept only, no session token.
InitHeaders == [Accept |-> "application/*+xml;version=30.0", token |-> None]

\* ------------------------------------------------------------ dict helpers
\* dict.update(e) on d.
Update(d, e) ==
    [k \in DOMAIN d \cup DOMAIN e |-> IF k \in DOMAIN e THEN e[k] ELSE d[k]]

\* d[key] = val
SetItem(d, key, val) ==
    [k \in DOMAIN d \cup {key} |-> IF k = key THEN val ELSE d[k]]

\* ------------------------------------------------------------------- JSON
\* Every dict key the model can produce, in the order Python compares
\* strings (code points: "" < "_" < "a" .. "z"); json.dumps(sort_keys=True)
\* emits keys in this order.
KeyOrder ==
    << "", "_meta", "ansible_become", "ansible_host",
       "ansible_python_interpreter", "ansible_ssh_common_args",
       "db", "db1", "jumphost", "prod", "server", "vapp1", "vapp2", "web1" >>

Rank(k) == CHOOSE i \in 1..Len(KeyOrder) : KeyOrder[i] = k

\* sorted(S) for a set of keys.
RECURSIVE SortKeys(_)
SortKeys(S) ==
    IF S = {} THEN <<>>
    ELSE LET m == CHOOSE x \in S : \A y \in S : Rank(x) <= Rank(y)
         IN  <<m>> \o SortKeys(S \ {m})

\* json.dumps of a flat dict of strings (one host's hostvars, or {}).
json_format_vars(d) ==
    LET ks == SortKeys(DOMAIN d)
    IN  [i \in 1..Len(ks) |-> <<ks[i], d[ks[i]]>>]

\* json.dumps of the value of one top-level inventory key.
JsonValue(v) ==
    IF "hostvars" \in DOMAIN v
    THEN LET ks == SortKeys(DOMAIN v.hostvars)
         IN  [hostvars |->
                [i \in 1..Len(ks) |-> <<ks[i], json_format_vars(v.hostvars[ks[i]])>>]]
    ELSE v

\* json.dumps(data, sort_keys=True, indent=2) of an inventory.
json_format_dict(data) ==
    LET ks == SortKeys(DOMAIN data)
    IN  [i \in 1..Len(ks) |-> <<ks[i], JsonValue(data[ks[i]])>>]

\* The dict a sequence of <<key, value>> pairs denotes.
PairsToDict(ps) ==
    [k \in {ps[i][1] : i \in 1..Len(ps)} |->
        LET i == CHOOSE j \in 1..Len(ps) : ps[j][1] = k IN ps[i][2]]

\* json.loads of an inventory text.
json_loads(text) ==
    LET top == PairsToDict(text)
    IN  [k \in DOMAIN top |->
            IF "hostvars" \in DOMAIN top[k]
            THEN [hostvars |->
                    LET hv == PairsToDict(top[k].hostvars)
                    IN  [h \in DOMAIN hv |-> PairsToDict(hv[h])]]
            ELSE top[k]]

\* ------------------------------------------------------------ upstream API
\* What the upstream API holds: a sequence of vApps (VAppRecord elements in
\* document order); a vApp has a name and its Vm elements; a Vm has a name,
\* the texts of the IpAddress elements of its subtree in document order, and
\* the MetadataEntry elements of its metadata resource.  A MetadataEntry has
\* a Key element or not, and its Value texts; a text is a sequence of
\* tokens, "," being the comma and any other token a run of other characters.
Entry(k, vals) == [haskey |-> TRUE, key |-> k, values |-> vals]
NoKeyEntry == [haskey |-> FALSE, key |-> None, values |-> <<>>]

Vm(n, ips, meta) == [name |-> n, ips |-> ips, meta |-> meta]
VApp(n, vms) == [name |-> n, vms |-> vms]

VmWeb1 == Vm("web1", <<"10.0.0.5">>, << Entry("ansible_groups", << <<"prod">> >>) >>)
VmWeb1NoIp == Vm("web1", <<>>, << Entry("ansible_groups", << <<"prod">> >>) >>)
VmDb1 == Vm("db1", <<"10.0.0.6", "10.0.0.7">>,
            << Entry("owner", << <<"ops">> >>),
               Entry("ansible_groups", << <<"prod", ",", "db">> >>) >>)
VmJump == Vm("jumphost", <<>>, <<>>)
VmNoKey == Vm("web1", <<"10.0.0.5">>, << NoKeyEntry >>)
VmMetaTag == Vm("web1", <<"10.0.0.5">>, << Entry("ansible_groups", << <<"_meta">> >>) >>)

ApiStates ==
    { <<>>,
      << VApp("vapp1", <<VmWeb1>>) >>,
      << VApp("vapp1", <<VmWeb1NoIp>>) >>,
      << VApp("vapp1", <<VmWeb1, VmJump>>), VApp("vapp2", <<>>) >>,
      << VApp("vapp2", <<VmDb1>>) >>,
      << VApp("vapp1", <<VmNoKey>>) >>,
      << VApp("vapp1", <<VmMetaTag>>) >> }

\* A transport fault hits the at-th GET of a refresh (0: none).  "network":
\* requests.get raises; "bad_xml": ET.fromstring raises; "http_error": the
\* server answers with a well-formed error document, which holds no
\* VAppRecord, Vm or MetadataEntry element.
MaxFaultAt == 3
NoFault == [at |-> 0, kind |-> "ok"]
Faults ==
    {NoFault} \cup
    [at : 1..MaxFaultAt, kind : {"network", "bad_xml", "http_error"}]

\* The server issues a fresh token to every session: the token of the n-th
\* successful POST /sessions of an invocation.
SessionToken(n) == IF n = 1 THEN "tok1" ELSE "tok2"

\* ---------------------------------------------------------- resource walk
\* str.split(',') on a text.
RECURSIVE Split(_)
Split(t) ==
    LET commas == {i \in 1..Len(t) : t[i] = ","}
        Join(seg) == IF seg = <<>> THEN "" ELSE seg[1]
    IN  IF commas = {} THEN << Join(t) >>
        ELSE LET i == CHOOSE c \in commas : \A d \in commas : c <= d
             IN  << Join(SubSeq(t, 1, i - 1)) >> \o Split(SubSeq(t, i + 1, Len(t)))

RECURSIVE SplitAll(_)
SplitAll(vals) ==
    IF vals = <<>> THEN <<>> ELSE Split(Head(vals)) \o SplitAll(Tail(vals))

\* The loop of gather_meta_from over the MetadataEntry elements.
RECURSIVE gather_meta_from(_)
gather_meta_from(entries) ==
    IF entries = <<>> THEN [err |-> "", groups |-> <<>>]
    ELSE LET e == Head(entries)
             rest == gather_meta_from(Tail(entries))
         IN  IF ~e.haskey THEN [err |-> "AttributeError", groups |-> <<>>]
             ELSE IF rest.err # "" THEN rest
             ELSE IF e.key = "ansible_groups"
                  THEN [err |-> "", groups |-> SplitAll(e.values) \o rest.groups]
                  ELSE rest

\* search_within_attrs(host, IpAddress, True, ''): first match or None.
search_within_attrs(ips) == IF ips = <<>> THEN None ELSE Head(ips)

merge_available_attrs(host) ==
    LET result == Update([ansible_host |-> search_within_attrs(host.ips)], GLOBALS)
    IN  IF host.name \in DOMAIN OVERRIDE
        THEN Update(result, OVERRIDE[host.name])
        ELSE result

\* extract_from_tree(url): one GET with the shared header map.  st is the
\* state of a refresh in progress: the inventory, the GETs sent, the
\* exception raised ("" while none).
extract_from_tree(st, kind, headers, fault) ==
    LET n == Len(st.reqs) + 1
        outcome == IF fault.at = n THEN fault.kind ELSE "ok"
    IN  [st EXCEPT !.reqs = Append(@, [m |-> "GET", kind |-> kind,
                                       token |-> headers.token, outcome |-> outcome,
                                       got |-> None]),
                   !.err = CASE outcome = "network" -> "ConnectionError"
                             [] outcome = "bad_xml" -> "ParseError"
                             [] OTHER -> @]

LastOutcome(st) == st.reqs[Len(st.reqs)].outcome

\* Lines 230-236: file the host under each of its tags.
RECURSIVE AddToGroups(_, _, _)
AddToGroups(st, groups, host_name) ==
    IF groups = <<>> \/ st.err # "" THEN st
    ELSE LET g == Head(groups)
             inv1 == IF g \notin DOMAIN st.inv
                     THEN SetItem(st.inv, g, [hosts |-> <<>>])
                     ELSE st.inv
         IN  IF "hosts" \notin DOMAIN inv1[g]
             THEN [st EXCEPT !.inv = inv1, !.err = "KeyError"]
             ELSE AddToGroups(
                     [st EXCEPT !.inv = [inv1 EXCEPT ![g].hosts = Append(@, host_name)]],
                     Tail(groups), host_name)

\* Lines 238-240.
AddHost(st, vapp_name, host) ==
    LET inv1 == [st.inv EXCEPT !["server"].hosts = Append(@, host.name)]
    IN  IF "hosts" \notin DOMAIN inv1[vapp_name]
        THEN [st EXCEPT !.inv = inv1, !.err = "KeyError"]
        ELSE LET inv2 == [inv1 EXCEPT ![vapp_name].hosts = Append(@, host.name)]
             IN  [st EXCEPT !.inv =
                    [inv2 EXCEPT !["_meta"].hostvars =
                        SetItem(@, host.name, merge_available_attrs(host))]]

\* Lines 227-240: the loop over the Vm elements of one vApp.
RECURSIVE WalkHosts(_, _, _, _, _)
WalkHosts(st, vapp_name, vms, headers, fault) ==
    IF vms = <<>> \/ st.err # "" THEN st
    ELSE LET host == Head(vms)
             st1 == extract_from_tree(st, "metadata", headers, fault)
             meta == IF LastOutcome(st1) = "http_error"
                     THEN [err |-> "", groups |-> <<>>]
                     ELSE gather_meta_from(host.meta)
         IN  IF st1.err # "" THEN st1
             ELSE IF meta.err # "" THEN [st1 EXCEPT !.err = meta.err]
             ELSE LET st2 == AddToGroups(st1, meta.groups, host.name)
                  IN  IF st2.err # "" THEN st2
                      ELSE WalkHosts(AddHost(st2, vapp_name, host), vapp_name,
                                     Tail(vms), headers, fault)

\* Lines 218-240: the loop over the VAppRecord elements.
RECURSIVE WalkVApps(_, _, _, _)
WalkVApps(st, vapps, headers, fault) ==
    IF vapps = <<>> \/ st.err # "" THEN st
    ELSE LET vapp == Head(vapps)
             inv1 == [st.inv EXCEPT !["server"].children = Append(@, vapp.name)]
             inv2 == IF vapp.name \notin DOMAIN inv1
                     THEN SetItem(inv1, vapp.name, [hosts |-> <<>>])
                     ELSE inv1
             st1 == extract_from_tree([st EXCEPT !.inv = inv2], "vapp", headers, fault)
             vms == IF LastOutcome(st1) = "http_error" THEN <<>> ELSE vapp.vms
         IN  IF st1.err # "" THEN st1
             ELSE WalkVApps(WalkHosts(st1, vapp.name, vms, headers, fault),
                            Tail(vapps), headers, fault)

\* call_update_cache between authentication and the cache write: the walk
\* over what the API holds, starting from the inventory in memory.
Walk(inventory, apiState, headers, fault) ==
    LET st0 == extract_from_tree([inv |-> inventory, reqs |-> <<>>, err |-> ""],
                                 "query", headers, fault)
        vapps == IF LastOutcome(st0) = "http_error" THEN <<>> ELSE apiState
    IN  IF st0.err # "" THEN st0
        ELSE WalkVApps(st0, vapps, headers, fault)

\* ------------------------------------------------------------- environment
\* The variables are numbered in the order read_credentials reads them:
\* 1 VCD_URL, 2 VCD_USER, 3 VCD_PASSWORD, 4 VCD_ORG.
Unset == [set |-> FALSE, val |-> <<>>]
GoodValue(i) ==
    CASE i = 1 -> <<"https://vcd/api">>
      [] i = 2 -> <<"bob">>
      [] i = 3 -> <<"secret">>
      [] i = 4 -> <<"acme">>

\* An environment: per variable unset, whitespace only, or a proper value
\* (a value is a sequence of characters, " " being whitespace).
Envs ==
    { e \in [1..4 -> [set : BOOLEAN, val : {<<>>, <<" ">>} \cup {GoodValue(i) : i \in 1..4}]] :
        \A i \in 1..4 : \/ e[i] = Unset
                        \/ e[i].set /\ e[i].val \in {<<" ">>, GoodValue(i)} }

\* os.environ.get(name, '')
EnvGet(e, i) == IF e[i].set THEN e[i].val ELSE <<>>

\* A check that forgets strip(): the value is tested as it is.
Strip_Missing(s) == s

\* str.strip()
RECURSIVE Strip(_)
Strip(s) ==
    IF s = <<>> THEN s
    ELSE IF Head(s) = " " THEN Strip(Tail(s))
    ELSE IF s[Len(s)] = " " THEN Strip(SubSeq(s, 1, Len(s) - 1))
    ELSE s

Diagnostic(i) ==
    CASE i = 1 -> "Missing VCD_URL environment variable!"
      [] i = 2 -> "Missing VCD_USER environment variable!"
      [] i = 3 -> "Missing VCD_PASSWORD environment variable!"
      [] i = 4 -> "Missing VCD_ORG environment variable!"

\* The variables read_credentials finds blank, in the order it reads them.
Blank(e) == {i \in 1..4 : Strip(EnvGet(e, i)) = <<>>}
FirstBlank(e) == CHOOSE i \in Blank(e) : \A j \in Blank(e) : i <= j

InitCredentials ==
    [base_url |-> <<>>, username |-> <<>>, password |-> <<>>, org |-> <<>>,
     headers |-> InitHeaders]

\* The credentials after read_credentials has read the first n variables.
CredentialsRead(c, e, n) ==
    [c EXCEPT !.base_url = IF n >= 1 THEN EnvGet(e, 1) ELSE @,
              !.username = IF n >= 2 THEN EnvGet(e, 2) ELSE @,
              !.password = IF n >= 3 THEN EnvGet(e, 3) ELSE @,
              !.org      = IF n >= 4 THEN EnvGet(e, 4) ELSE @]

\* ------------------------------------------------------------------ cache
cache_dir == <<"~/.vcd/cache">>

\* os.path.join(cache_dir, '%s.cache' % (org + '-' + username))
CachePath(c) == cache_dir \o <<"/">> \o c.org \o <<"-">> \o c.username \o <<".cache">>

\* Line 141 with >= for >: a cache of age cache_max_age is still served.
is_cache_valid_Inclusive(fs, path, t) ==
    IF path \in DOMAIN fs
    THEN (fs[path].mtime + cache_max_age) >= t
    ELSE FALSE

\* is_cache_valid against a file system fs (path -> file) at time t.
is_cache_valid(fs, path, t) ==
    IF path \in DOMAIN fs
    THEN (fs[path].mtime + cache_max_age) > t
    ELSE FALSE

\* Seconds between two invocations.
Delays == {899, 900}

Hosts == {"web1"}
Args == [host : Hosts \cup {None}, refresh_cache : BOOLEAN]

Printed(doc) == [kind |-> "json", text |-> "", doc |-> doc]
PrintedText(t) == [kind |-> "text", text |-> t, doc |-> <<>>]

\* ------------------------------------------- vcd_vapp_network.py: data
\* The parameters of one run of the module (vapp_network_argument_spec,
\* lines 141-157).  An unset optional parameter is None; an address is the
\* integer it denotes, an ip_scope an address with a prefix length.
Addr(a, b, c, d) == ((a * 256 + b) * 256 + c) * 256 + d

NetworkNamesIn == {"net1", "net2"}
FenceModes == {"bridged", "natRouted"}
ParentNetworks == {None, "org_net", "ghost_net"}
NoScope == [set |-> FALSE, addr |-> 0, prefix |-> 0]
IpScopesIn == {NoScope, [set |-> TRUE, addr |-> Addr(10, 0, 0, 77), prefix |-> 24]}
NoAddr == -1
RangeStarts == {Addr(10, 0, 0, 10)}

Params ==
    [network : NetworkNamesIn,
     state : {"present", "absent"},
     fence_mode : FenceModes,
     parent_network : ParentNetworks,
     ip_scope : IpScopesIn,
     ip_range_start : RangeStarts,
     ip_range_end : {NoAddr},
     fw_state : {"disabled"},
     nat_state : {"enabled"},
     dns1 : {""}, dns2 : {""}, dns_suffix : {"test.net"}]

\* The org VDC networks the server knows (name -> href).
OrgVdcNetworks == [n \in {"org_net"} |-> "https://vcd/api/network/1"]

NoResponse == [changed |-> FALSE, msg |-> <<>>, warnings |-> <<>>]

\* What is known of the latest run of the module before any run.
NoRun ==
    [params |-> [network |-> "net1", state |-> "absent", fence_mode |-> "bridged",
                 parent_network |-> None, ip_scope |-> NoScope,
                 ip_range_start |-> NoAddr, ip_range_end |-> NoAddr,
                 fw_state |-> "enabled", nat_state |-> "enabled",
                 dns1 |-> "", dns2 |-> "", dns_suffix |-> ""],
     check_mode |-> FALSE,
     before |-> <<>>,
     submitted |-> <<>>,
     tasks |-> 0,
     ended |-> "none",
     error |-> "",
     response |-> NoResponse]

\* ------------------------------------------------------------------ state
VARIABLES
    runs,            \* invocations started so far
    pc,              \* position of the current invocation
    args,            \* parsed command line
    env,             \* the environment read_credentials saw
    credentials,     \* self.credentials
    cache_path_file, \* self.cache_path_file
    inventory,       \* self.inventory
    ret,             \* where call_update_cache returns to
    fault,           \* transport fault of the latest walk
    log,             \* requests sent upstream in this invocation
    stdout,          \* what this invocation printed
    writes,          \* cache writes of this invocation
    api,             \* what the upstream API holds during this invocation
    now,             \* time()
    dirs,            \* whether ~/.vcd/cache exists
    files,           \* cache files: path -> [content, mtime]
    files0,          \* files and dirs as the invocation found them
    dirs0,
    exit_code,       \* exit status of the invocation (-1 while it runs)
    net_runs,        \* runs of vcd_vapp_network so far
    vapp_networks,   \* the vApp's NetworkConfigSection on the server
    last             \* the latest run of vcd_vapp_network

vars == <<runs, pc, args, env, credentials, cache_path_file, inventory, ret,
          fault, log, stdout, writes, api, now, dirs, files, files0, dirs0,
          exit_code, net_runs, vapp_networks, last>>

\* The state of the inventory script, and the state of vcd_vapp_network.
invvars == <<runs, pc, args, env, credentials, cache_path_file, inventory, ret,
             fault, log, stdout, writes, api, now, dirs, files, files0, dirs0,
             exit_code>>
netvars == <<net_runs, vapp_networks, last>>

\* No run of vcd_vapp_network yet, the vApp has no network.
InitNet ==
    /\ net_runs = 0
    /\ vapp_networks = <<>>
    /\ last = NoRun

InitInventory ==
    /\ runs = 0
    /\ pc = "idle"
    /\ args = [host |-> None, refresh_cache |-> FALSE]
    /\ env = [i \in 1..4 |-> Unset]
    /\ credentials = InitCredentials
    /\ cache_path_file = <<>>
    /\ inventory = _empty_inventory
    /\ ret = "serve"
    /\ fault = NoFault
    /\ log = <<>>
    /\ stdout = <<>>
    /\ writes = 0
    /\ api = <<>>
    /\ now = 0
    /\ dirs = FALSE
    /\ files = EmptyMap
    /\ files0 = EmptyMap
    /\ dirs0 = FALSE
    /\ exit_code = -1

Init == InitInventory /\ InitNet

\* The exit status at position p: 0 after line 71, 1 after exit(1) or an
\* uncaught exception.
ExitCode(p) ==
    CASE p = "done" -> 0
      [] p \in {"exited", "crashed"} -> 1
      [] OTHER -> -1

Ended == pc \in {"idle", "done", "exited", "crashed"}

\* A new invocation: lines 41-54 (fresh object, parse_cli_args).
Start ==
    /\ Ended
    /\ runs < MaxRuns
    /\ runs' = runs + 1
    /\ \E a \in Args : args' = a
    /\ \E s \in ApiStates : api' = s
    /\ \E d \in (IF runs = 0 THEN {0} ELSE Delays) : now' = now + d
    /\ env' = [i \in 1..4 |-> Unset]
    /\ inventory' = _empty_inventory
    /\ credentials' = InitCredentials
    /\ cache_path_file' = <<>>
    /\ ret' = "serve"
    /\ fault' = NoFault
    /\ log' = <<>>
    /\ stdout' = <<>>
    /\ writes' = 0
    /\ files0' = files
    /\ dirs0' = dirs
    /\ pc' = "read_credentials"
    /\ exit_code' = -1
    /\ UNCHANGED <<dirs, files>>
    /\ UNCHANGED netvars

\* read_credentials (lines 99-122) under environment e.
read_credentials(e) ==
    /\ pc = "read_credentials"
    /\ env' = e
    /\ IF Blank(e) # {}
       THEN /\ credentials' = CredentialsRead(credentials, e, FirstBlank(e))
            /\ stdout' = Append(stdout, PrintedText(Diagnostic(FirstBlank(e))))
            /\ pc' = "exited"
       ELSE /\ credentials' = CredentialsRead(credentials, e, 4)
            /\ stdout' = stdout
            /\ pc' = "configure_cache"
    /\ UNCHANGED <<runs, args, cache_path_file, inventory, ret, fault, log,
                   writes, api, now, dirs, files, files0, dirs0>>
    /\ exit_code' = ExitCode(pc')
    /\ UNCHANGED netvars

\* configure_cache (lines 124-134).
configure_cache ==
    /\ pc = "configure_cache"
    /\ dirs' = TRUE
    /\ cache_path_file' = CachePath(credentials)
    /\ pc' = "decide"
    /\ UNCHANGED <<runs, args, env, credentials, inventory, ret, fault, log,
                   stdout, writes, api, now, files, files0, dirs0>>
    /\ exit_code' = ExitCode(pc')
    /\ UNCHANGED netvars

\* Line 60 without line 58's elif partner: only the flag refreshes.
NeedsRefresh_FlagOnly(a, fs, path, t) == a.refresh_cache

\* Line 60 without its "not": a valid cache is refreshed.
NeedsRefresh_Inverted(a, fs, path, t) ==
    a.refresh_cache \/ is_cache_valid(fs, path, t)

\* Lines 58-59 dropped: --refresh-cache is ignored.
NeedsRefresh_NoFlag(a, fs, path, t) == ~is_cache_valid(fs, path, t)

\* The conditions of lines 58 and 60.
NeedsRefresh(a, fs, path, t) ==
    a.refresh_cache \/ ~is_cache_valid(fs, path, t)

\* Lines 58-61 of __init__: refresh or not.
decide ==
    /\ pc = "decide"
    /\ IF NeedsRefresh(args, files, cache_path_file, now)
       THEN pc' = "authenticate" /\ ret' = "serve"
       ELSE pc' = "serve" /\ ret' = ret
    /\ UNCHANGED <<runs, args, env, credentials, cache_path_file, inventory,
                   fault, log, stdout, writes, api, now, dirs, files, files0, dirs0>>
    /\ exit_code' = ExitCode(pc')
    /\ UNCHANGED netvars

\* Line 253 dropped: the token is never stored.
StoreToken_Dropped(headers, tok) == headers

\* Line 253: the token goes into the shared header map.
StoreToken(headers, tok) == [headers EXCEPT !.token = tok]

\* authenticate_to_api (lines 244-253): the POST and the header write.
authenticate_to_api(outcome) ==
    /\ pc = "authenticate"
    /\ LET tok == SessionToken(Cardinality({i \in 1..Len(log) : log[i].m = "POST"}) + 1)
       IN
       /\ log' = Append(log, [m |-> "POST", kind |-> "sessions",
                           token |-> credentials.headers.token,
                           outcome |-> outcome,
                           got |-> IF outcome = "ok" THEN tok ELSE None])
       /\ IF outcome = "ok"
          THEN /\ credentials' = [credentials EXCEPT !.headers = StoreToken(@, tok)]
               /\ pc' = "walk"
          ELSE /\ credentials' = credentials
               /\ pc' = "crashed"
    /\ UNCHANGED <<runs, args, env, cache_path_file, inventory, ret, fault,
                   stdout, writes, api, now, dirs, files, files0, dirs0>>
    /\ exit_code' = ExitCode(pc')
    /\ UNCHANGED netvars

\* call_update_cache, lines 218-240: the walk, under transport fault f.
walk(f) ==
    /\ pc = "walk"
    /\ LET st == Walk(inventory, api, credentials.headers, f)
       IN  /\ f.at <= Len(st.reqs)
           /\ inventory' = st.inv
           /\ log' = log \o st.reqs
           /\ fault' = f
           /\ pc' = IF st.err # "" THEN "crashed" ELSE "write"
    /\ UNCHANGED <<runs, args, env, credentials, cache_path_file, ret,
                   stdout, writes, api, now, dirs, files, files0, dirs0>>
    /\ exit_code' = ExitCode(pc')
    /\ UNCHANGED netvars

\* write_to_cache (lines 145-147), called at line 242.
write_to_cache ==
    /\ pc = "write"
    /\ files' = SetItem(files, cache_path_file,
                        [content |-> json_format_dict(inventory), mtime |-> now])
    /\ writes' = writes + 1
    /\ pc' = ret
    /\ UNCHANGED <<runs, args, env, credentials, cache_path_file, inventory,
                   ret, fault, log, stdout, api, now, dirs, files0, dirs0>>
    /\ exit_code' = ExitCode(pc')
    /\ UNCHANGED netvars

\* inventory_from_cache (lines 255-257).
inventory_from_cache == files[cache_path_file].content

\* Lines 65-71 of __init__: list mode.  Reading a missing file raises.
serve_list ==
    /\ pc = "serve"
    /\ args.host = None
    /\ IF inventory = _empty_inventory /\ cache_path_file \notin DOMAIN files
       THEN /\ stdout' = stdout
            /\ pc' = "crashed"
       ELSE /\ stdout' = Append(stdout,
                    Printed(IF inventory = _empty_inventory
                            THEN inventory_from_cache
                            ELSE json_format_dict(inventory)))
            /\ pc' = "done"
    /\ UNCHANGED <<runs, args, env, credentials, cache_path_file, inventory,
                   ret, fault, log, writes, api, now, dirs, files, files0, dirs0>>
    /\ exit_code' = ExitCode(pc')
    /\ UNCHANGED netvars

\* Line 272 answering with a stub instead of {}.
MissResult_Stub == json_format_vars([ansible_host |-> None])

\* Line 272: the answer for a host that is still unknown.
MissResult == json_format_vars(EmptyMap)

\* host_information, lines 266-269, and when the host is cached 274 and 71.
\* Reading a missing file raises.
host_information ==
    /\ pc = "serve"
    /\ args.host # None
    /\ IF cache_path_file \notin DOMAIN files
       THEN /\ inventory' = inventory
            /\ pc' = "crashed"
            /\ ret' = ret
            /\ stdout' = stdout
       ELSE LET loaded == json_loads(inventory_from_cache)
            IN  /\ inventory' = loaded
                /\ IF args.host \notin DOMAIN loaded["_meta"].hostvars
                   THEN /\ pc' = "authenticate"
                        /\ ret' = "retry"
                        /\ stdout' = stdout
                   ELSE /\ pc' = "done"
                        /\ ret' = ret
                        /\ stdout' = Append(stdout,
                             Printed(json_format_vars(loaded["_meta"].hostvars[args.host])))
    /\ UNCHANGED <<runs, args, env, credentials, cache_path_file, fault, log,
                   writes, api, now, dirs, files, files0, dirs0>>
    /\ exit_code' = ExitCode(pc')
    /\ UNCHANGED netvars

\* host_information after its call_update_cache: lines 271-274, and 71.
host_retry ==
    /\ pc = "retry"
    /\ stdout' = Append(stdout,
          Printed(IF args.host \notin DOMAIN inventory["_meta"].hostvars
                  THEN MissResult
                  ELSE json_format_vars(inventory["_meta"].hostvars[args.host])))
    /\ pc' = "done"
    /\ UNCHANGED <<runs, args, env, credentials, cache_path_file, inventory,
                   ret, fault, log, writes, api, now, dirs, files, files0, dirs0>>
    /\ exit_code' = ExitCode(pc')
    /\ UNCHANGED netvars

Next ==
    \/ Start
    \/ \E e \in Envs : read_credentials(e)
    \/ configure_cache
    \/ decide
    \/ \E o \in {"ok", "network", "no_header"} : authenticate_to_api(o)
    \/ \E f \in Faults : walk(f)
    \/ write_to_cache
    \/ serve_list
    \/ host_information
    \/ host_retry

Spec == Init /\ [][Next]_vars

TypeOK == pc \in {"idle", "read_credentials", "configure_cache", "decide",
                  "authenticate", "walk", "write", "serve", "retry",
                  "done", "exited", "crashed"}

\* ------------------------------------------------------- claim vocabulary
\* The invocation is past configure_cache (cache_path_file is set).
Configured == pc \notin {"idle", "read_credentials", "configure_cache", "exited"}

Posts == {i \in 1..Len(log) : log[i].m = "POST"}
Gets(kind) == {i \in 1..Len(log) : log[i].m = "GET" /\ log[i].kind = kind}

\* The cache was valid when the invocation started.
WasValid == is_cache_valid(files0, cache_path_file, now)

\* The host names under _meta.hostvars of a cache text.
CachedHosts(text) ==
    UNION { {text[i][2].hostvars[j][1] : j \in 1..Len(text[i][2].hostvars)} :
              i \in {k \in 1..Len(text) : text[k][1] = "_meta"} }

\* The hostvars object of host h in a cache text.
CachedVars(text, h) ==
    LET i == CHOOSE k \in 1..Len(text) : text[k][1] = "_meta"
        hv == text[i][2].hostvars
        j == CHOOSE k \in 1..Len(hv) : hv[k][1] = h
    IN  hv[j][2]

\* The machines the API holds.
ApiMachines == UNION { {api[i].vms[j] : j \in 1..Len(api[i].vms)} : i \in 1..Len(api) }
ApiNames == {m.name : m \in ApiMachines}

\* No request of this invocation failed in transport, and what the API
\* holds can be filed: every metadata entry has a Key and no tag is "_meta".
Clean ==
    /\ \A i \in 1..Len(log) : log[i].outcome \in {"ok", "http_error"}
    /\ \A m \in ApiMachines : \A k \in 1..Len(m.meta) :
          /\ m.meta[k].haskey
          /\ \A v \in 1..Len(m.meta[k].values) :
                \A t \in 1..Len(m.meta[k].values[v]) : m.meta[k].values[v][t] # "_meta"

\* The snapshot a refresh over the API alone produces.
FreshSnapshot ==
    json_format_dict(Walk(_empty_inventory, api, credentials.headers, fault).inv)

\* A refresh has been written and none is in progress.
Refreshed == writes > 0 /\ pc \in {"serve", "retry", "done"}

\* ------------------------------------------------------------------ claims
\* C1: host mode, valid cache without the host, no --refresh-cache, and the
\* API has no machine of that name: the invocation ends with exactly one
\* refresh (one POST, one vApp query, one cache write) and prints {}; it
\* does not end in an error unless the refresh itself fails.
C1Case ==
    /\ pc \in {"done", "crashed"}
    /\ args.host # None
    /\ ~args.refresh_cache
    /\ WasValid
    /\ args.host \notin CachedHosts(files0[cache_path_file].content)
    /\ args.host \notin ApiNames

C1_HostMissOneRefresh ==
    C1Case =>
        /\ Clean => pc = "done"
        /\ pc = "done" =>
              /\ Cardinality(Posts) = 1
              /\ Cardinality(Gets("query")) = 1
              /\ writes = 1
              /\ stdout = << Printed(<<>>) >>
              /\ exit_code = 0

C1_Witness ==
    /\ C1Case
    /\ pc = "done"
    /\ stdout = << Printed(<<>>) >>

\* C2: after a successful refresh the cache file holds exactly the snapshot
\* of what the API returned during that refresh, nothing of an earlier
\* snapshot.
C2_RefreshReplacesSnapshot ==
    (Refreshed /\ fault = NoFault) =>
        files[cache_path_file].content = FreshSnapshot

\* Where a name occurs in a snapshot.
InHosts(n, v) == "hosts" \in DOMAIN v /\ \E i \in 1..Len(v.hosts) : v.hosts[i] = n
Appears(n, inv) ==
    \/ n \in DOMAIN inv["_meta"].hostvars
    \/ \E g \in DOMAIN inv : InHosts(n, inv[g])

\* C3: a machine the API returned is in the written snapshot iff it has an
\* IpAddress element.
C3_HostIffIpAddress ==
    (Refreshed /\ fault = NoFault) =>
        \A m \in ApiMachines :
            (m.ips # <<>>) <=> Appears(m.name, json_loads(files[cache_path_file].content))

\* C4: list mode with a stale or missing cache: nothing is printed before a
\* refresh (authentication, walk, cache write) has completed, and what is
\* printed is the content just written to the cache file.
C4Case ==
    /\ Configured
    /\ args.host = None
    /\ ~args.refresh_cache
    /\ \/ cache_path_file \notin DOMAIN files0
       \/ now - files0[cache_path_file].mtime >= cache_max_age

C4_StaleListRefreshesFirst ==
    C4Case =>
        /\ pc = "serve" => writes = 1
        /\ pc = "done" => stdout # <<>>
        /\ stdout # <<>> =>
              /\ writes = 1
              /\ Cardinality(Posts) = 1
              /\ Cardinality(Gets("query")) = 1
              /\ cache_path_file \in DOMAIN files
              /\ files[cache_path_file].mtime = now
              /\ stdout = << Printed(files[cache_path_file].content) >>

C4_Witness ==
    /\ C4Case
    /\ pc = "done"
    /\ cache_path_file \in DOMAIN files0
    /\ files[cache_path_file].content # files0[cache_path_file].content
    /\ stdout = << Printed(files[cache_path_file].content) >>

\* C5: valid cache and no --refresh-cache, in list mode or in host mode for
\* a cached host: no request goes upstream, the cache file stays as it was,
\* and the output is the cached text (list) or the cached hostvars (host).
C5Case ==
    /\ Configured
    /\ ~args.refresh_cache
    /\ WasValid
    /\ \/ args.host = None
       \/ args.host \in CachedHosts(files0[cache_path_file].content)

C5_CacheHitNoTraffic ==
    C5Case =>
        /\ log = <<>>
        /\ files = files0
        /\ writes = 0
        /\ pc \in {"decide", "serve", "done"}
        /\ pc = "done" =>
              stdout = << Printed(IF args.host = None
                                  THEN files0[cache_path_file].content
                                  ELSE CachedVars(files0[cache_path_file].content,
                                                  args.host)) >>

C5_Witness ==
    /\ C5Case
    /\ pc = "done"
    /\ args.host # None
    /\ stdout # <<>>

\* C6: an invocation that fails during a refresh leaves the cache file
\* exactly as it found it and prints nothing.
C6_FailedRefreshKeepsCache ==
    pc = "crashed" => (files = files0 /\ stdout = <<>>)

\* C7: an invocation authenticates at most once.
C7_AuthenticateOnce ==
    Cardinality(Posts) <= 1

\* C8: every GET carries a session token, and it is the token of the latest
\* successful authentication before it in the same invocation.
C8_EveryGetAuthenticated ==
    \A i \in 1..Len(log) :
        log[i].m = "GET" =>
            /\ log[i].token # None
            /\ \E j \in 1..(i - 1) :
                  /\ log[j].m = "POST"
                  /\ log[j].outcome = "ok"
                  /\ log[j].got = log[i].token
                  /\ \A k \in (j + 1)..(i - 1) : log[k].m # "POST"

C8_Witness ==
    /\ Gets("metadata") # {}
    /\ Cardinality(Posts) = 2

\* C9: --refresh-cache without --host refreshes whatever the cache state:
\* the cache file is overwritten with the snapshot of this refresh, and
\* that snapshot is what is printed.
C9Case ==
    /\ Configured
    /\ args.refresh_cache
    /\ args.host = None

C9_RefreshUnconditional ==
    C9Case =>
        /\ pc = "serve" => writes = 1
        /\ pc = "done" =>
              /\ writes = 1
              /\ Cardinality(Posts) = 1
              /\ files[cache_path_file].mtime = now
              /\ files[cache_path_file].content = FreshSnapshot
              /\ stdout = << Printed(FreshSnapshot) >>

C9_Witness ==
    /\ C9Case
    /\ WasValid
    /\ pc = "done"
    /\ files[cache_path_file].content # files0[cache_path_file].content

\* An environment value that is absent or only whitespace.
IsBlank(v) == ~v.set \/ \A k \in 1..Len(v.val) : v.val[k] = " "

\* C10: with any credential variable absent or blank the invocation prints
\* a diagnostic naming a missing variable and exits with status 1, having
\* sent nothing upstream and left the cache directory and files alone; no
\* later step runs unless all four are present.
C10_CredentialGate ==
    /\ pc = "exited" =>
          /\ \E i \in 1..4 : /\ IsBlank(env[i])
                             /\ stdout = << PrintedText(Diagnostic(i)) >>
          /\ exit_code = 1
          /\ log = <<>>
          /\ dirs = dirs0
          /\ files = files0
    /\ pc \in {"configure_cache", "decide", "authenticate", "walk", "write",
               "serve", "retry", "done", "crashed"} =>
          /\ \A i \in 1..4 : ~IsBlank(env[i])
          /\ credentials.base_url = env[1].val
          /\ credentials.username = env[2].val
          /\ credentials.password = env[3].val
          /\ credentials.org = env[4].val

C10_Witness ==
    /\ pc = "exited"
    /\ ~dirs
    /\ env[1].set /\ env[1].val = <<"https://vcd/api">>
    /\ env[3].set /\ env[3].val = <<" ">>

\* ------------------------------------------- is_cache_valid on its inputs
\* An invocation that has read good credentials and configured its cache
\* stands before line 58, for every command line, with no cache file or
\* one of any modification time, at any current time around the boundary.
MaxMtime == 3
Mtimes == 0..MaxMtime
Nows == {0, 1, 898, 899, 900, 901, 902, 903, 1800}

GoodEnv == [i \in 1..4 |-> [set |-> TRUE, val |-> GoodValue(i)]]
GoodCredentials == CredentialsRead(InitCredentials, GoodEnv, 4)

\* The inventory script after configure_cache, all else as found.
Configured0 ==
    /\ runs = 1
    /\ env = GoodEnv
    /\ credentials = GoodCredentials
    /\ cache_path_file = CachePath(GoodCredentials)
    /\ inventory = _empty_inventory
    /\ ret = "serve"
    /\ fault = NoFault
    /\ log = <<>>
    /\ stdout = <<>>
    /\ writes = 0
    /\ dirs = TRUE
    /\ dirs0 = TRUE
    /\ exit_code = -1
    /\ InitNet

InitValid ==
    /\ Configured0
    /\ pc = "decide"
    /\ args \in Args
    /\ api = <<>>
    /\ now \in Nows
    /\ files \in {EmptyMap} \cup
                 { (CachePath(GoodCredentials) :>
                       [content |-> json_format_dict(_empty_inventory), mtime |-> m]) :
                   m \in Mtimes }
    /\ files0 = files

ValidNext == decide

ValidSpec == InitValid /\ [][ValidNext]_vars

\* C11: is_cache_valid is true iff the cache file exists and its age, the
\* current time minus its modification time, is strictly below 900; so an
\* invocation without --refresh-cache goes on to serve the cache exactly
\* then, and refreshes at age 900 and with no file.
C11_Fresh ==
    /\ cache_path_file \in DOMAIN files
    /\ now - files[cache_path_file].mtime < 900

C11_CacheValidityBoundary ==
    /\ is_cache_valid(files, cache_path_file, now) <=> C11_Fresh
    /\ (pc \in {"serve", "authenticate"} /\ ~args.refresh_cache) =>
          (pc = "serve" <=> C11_Fresh)

C11_Witness ==
    /\ pc = "authenticate"
    /\ ~args.refresh_cache
    /\ cache_path_file \in DOMAIN files
    /\ now - files[cache_path_file].mtime = 900

\* ------------------------------------------ configure_cache on its inputs
\* An invocation that has read its credentials stands before
\* configure_cache, for every organisation and user name of up to
\* MaxNameLen characters.
MaxNameLen == 2
NameChars == {"a", "b", "-"}
CredNames == UNION { [1..n -> NameChars] : n \in 1..MaxNameLen }

InitPath ==
    /\ runs = 1
    /\ pc = "configure_cache"
    /\ args = [host |-> None, refresh_cache |-> FALSE]
    /\ \E o \in CredNames, u \in CredNames :
          /\ env = [GoodEnv EXCEPT ![2].val = u, ![4].val = o]
          /\ credentials = CredentialsRead(InitCredentials, env, 4)
    /\ cache_path_file = <<>>
    /\ inventory = _empty_inventory
    /\ ret = "serve"
    /\ fault = NoFault
    /\ log = <<>>
    /\ stdout = <<>>
    /\ writes = 0
    /\ api = <<>>
    /\ now = 0
    /\ dirs \in BOOLEAN
    /\ dirs0 = dirs
    /\ files = EmptyMap
    /\ files0 = EmptyMap
    /\ exit_code = -1
    /\ InitNet

PathNext == configure_cache

PathSpec == InitPath /\ [][PathNext]_vars

\* C12: the cache path is a function of (org, username) alone and no other
\* (org, username) pair has the same cache path.
C12_CachePathCollisionFree ==
    pc = "decide" =>
        /\ cache_path_file = CachePath(credentials)
        /\ \A o \in CredNames, u \in CredNames :
              CachePath([credentials EXCEPT !.org = o, !.username = u]) = cache_path_file
                  => (o = credentials.org /\ u = credentials.username)

\* ------------------------------------------------ one refresh on any API
\* An invocation in list mode without a cache file stands before its
\* refresh, for every API content of up to MaxVApps vApps of distinct names
\* with up to MaxVms machines each, of distinct names within a vApp.  Two
\* vApps may hold machines of the same name, and a vApp may have any name.
MaxVApps == 2
MaxVms == 2

VmWeb1Other == Vm("web1", <<"10.0.0.9">>, << Entry("ansible_groups", << <<"db">> >>) >>)
SnapVms == {VmWeb1, VmWeb1Other, VmDb1, VmJump}
SnapVAppNames == {"vapp1", "vapp2", "_meta"}

Distinct(q) == \A i, j \in 1..Len(q) : q[i].name = q[j].name => i = j

SnapVmSeqs == { q \in UNION { [1..n -> SnapVms] : n \in 0..MaxVms } : Distinct(q) }
SnapApis ==
    { q \in UNION { [1..n -> [name : SnapVAppNames, vms : SnapVmSeqs]] : n \in 0..MaxVApps } :
        Distinct(q) }

InitSnap ==
    /\ Configured0
    /\ pc = "authenticate"
    /\ args = [host |-> None, refresh_cache |-> FALSE]
    /\ api \in SnapApis
    /\ now = 0
    /\ files = EmptyMap
    /\ files0 = EmptyMap

SnapNext ==
    \/ \E o \in {"ok", "network", "no_header"} : authenticate_to_api(o)
    \/ \E f \in Faults : walk(f)
    \/ write_to_cache
    \/ serve_list

SnapSpec == InitSnap /\ [][SnapNext]_vars

\* The tags the ansible_groups metadata of machine m lists.
TagsOf(m) ==
    UNION { UNION { {m.meta[k].values[v][t] : t \in {x \in 1..Len(m.meta[k].values[v]) :
                                                      m.meta[k].values[v][x] # ","}} :
                    v \in 1..Len(m.meta[k].values) } :
            k \in {x \in 1..Len(m.meta) : m.meta[x].haskey /\ m.meta[x].key = "ansible_groups"} }

InList(n, q) == \E i \in 1..Len(q) : q[i] = n

\* The snapshot in the cache file.
Snapshot == json_loads(files[cache_path_file].content)

\* C13: after a refresh from the empty inventory, every machine M of every
\* vApp V that is not named in OVERRIDE and has an IP address A is in the
\* snapshot with ansible_host A, in server.hosts, in V's hosts and in the
\* hosts of every tag of its ansible_groups metadata, and V is in
\* server.children.
C13_DiscoveredHostContent ==
    (Refreshed /\ writes = 1 /\ ret = "serve" /\ fault = NoFault) =>
        \A i \in 1..Len(api) : \A j \in 1..Len(api[i].vms) :
            LET V == api[i].name
                M == api[i].vms[j]
            IN  (M.name \notin DOMAIN OVERRIDE /\ M.ips # <<>>) =>
                    /\ M.name \in DOMAIN Snapshot["_meta"].hostvars
                    /\ Snapshot["_meta"].hostvars[M.name]["ansible_host"] = M.ips[1]
                    /\ \A T \in TagsOf(M) :
                          /\ T \in DOMAIN Snapshot
                          /\ InList(M.name, Snapshot[T].hosts)
                    /\ V \in DOMAIN Snapshot
                    /\ InList(M.name, Snapshot[V].hosts)
                    /\ InList(M.name, Snapshot["server"].hosts)
                    /\ InList(V, Snapshot["server"].children)

\* The names in list q.
Names(q) == {q[i] : i \in 1..Len(q)}

\* C19: every snapshot a refresh has written is consistent: the keys of
\* _meta.hostvars are the names in server.hosts, every name in
\* server.children is a top-level key with a hosts list, and every name in
\* a group's hosts list is a key of _meta.hostvars.
C19_SnapshotConsistent ==
    (writes >= 1 /\ cache_path_file \in DOMAIN files) =>
        LET s == Snapshot
            hostvars == DOMAIN s["_meta"].hostvars
        IN  /\ hostvars = Names(s["server"].hosts)
            /\ \A c \in Names(s["server"].children) :
                  c \in DOMAIN s /\ "hosts" \in DOMAIN s[c]
            /\ \A g \in DOMAIN s :
                  "hosts" \in DOMAIN s[g] => Names(s[g].hosts) \subseteq hostvars

\* ------------------------------------------------------ vcd_vapp_network
\* The NetworkConfigSection of the vApp is the sequence of its NetworkConfig
\* entries.  The names get_all_networks reports are the names of these
\* entries (the server keeps the OVF NetworkSection in step with them), and
\* the server holds at most one entry per name.
MaxNetRuns == 2

\* An entry made outside the module.
Preexisting(n) ==
    [networkName |-> n,
     Configuration |-> [IpScopes |-> <<>>, ParentNetwork |-> None,
                        FenceMode |-> "isolated", Features |-> <<>>]]

\* The vApp before the first run.
VAppsIn == { <<>>, << Preexisting("net2") >>, << Preexisting("net3"), Preexisting("net1") >> }

\* What the PUT and the task it starts come to: "ok"; "put_failed":
\* put_linked_resource raises; "task_failed": execute_task raises and the
\* server has applied nothing.
Outcomes == {"ok", "put_failed", "task_failed"}

\* str() of an address: the dotted quad.
Dotted(n) == << n \div 16777216, (n \div 65536) % 256, (n \div 256) % 256, n % 256 >>

\* ip_network(ip_scope, strict=False).network_address
network_address(scope) == scope.addr - (scope.addr % (2 ^ (32 - scope.prefix)))

\* str(ip_network(ip_scope, strict=False).netmask)
netmask(scope) ==
    [k \in 1..4 |->
        IF scope.prefix >= 8 * k THEN 255
        ELSE IF scope.prefix <= 8 * (k - 1) THEN 0
        ELSE 256 - 2 ^ (8 * k - scope.prefix)]

\* Lines 184-190: TRUE if a network of that name is found, FALSE where
\* EntityNotFoundException is raised.
get_network_Blind(networks, network_name) == FALSE
get_network(networks, network_name) ==
    \E i \in 1..Len(networks) : networks[i].networkName = network_name

\* Lines 241-242: the org VDC network of that name, None if there is none.
FindParent_Any(orgvdc_networks, parent_network) ==
    orgvdc_networks[CHOOSE n \in DOMAIN orgvdc_networks : TRUE]
FindParent(orgvdc_networks, parent_network) ==
    IF parent_network \in DOMAIN orgvdc_networks
    THEN orgvdc_networks[parent_network]
    ELSE None

\* Lines 203-205: remove the entries of that name.
RECURSIVE remove_network_config(_, _)
remove_network_config_First(section, network_name) == Tail(section)
remove_network_config(section, network_name) ==
    IF section = <<>> THEN <<>>
    ELSE IF Head(section).networkName = network_name
         THEN remove_network_config(Tail(section), network_name)
         ELSE <<Head(section)>> \o remove_network_config(Tail(section), network_name)

\* Lines 251-255 and 271-275: the IpRanges of a scope.
IpRanges(p) ==
    IF p.ip_range_start # NoAddr
    THEN LET ip_range_end == IF p.ip_range_end = NoAddr THEN p.ip_range_start
                             ELSE p.ip_range_end
         IN  << [StartAddress |-> p.ip_range_start, EndAddress |-> ip_range_end] >>
    ELSE <<>>

\* Lines 244-249 and 263-269: the IpScope element; DnsSuffix is set only for
\* a network without parent.
IpScope(p, withSuffix) ==
    [IsInherited |-> "false",
     Gateway |-> Dotted(network_address(p.ip_scope) + 1),
     Netmask |-> netmask(p.ip_scope),
     Dns1 |-> p.dns1,
     Dns2 |-> p.dns2,
     DnsSuffix |-> IF withSuffix THEN <<p.dns_suffix>> ELSE <<>>,
     IpRanges |-> IpRanges(p)]

\* Lines 282-287.
Features(p) ==
    (IF p.fw_state = "disabled" THEN <<"FirewallService">> ELSE <<>>)
    \o (IF p.nat_state = "disabled" THEN <<"NatService">> ELSE <<>>)

\* Lines 233-287: the Configuration element, or the exception raised.
Configuration(p) ==
    IF p.parent_network # None
    THEN LET parent == FindParent(OrgVdcNetworks, p.parent_network)
         IN  IF parent # None
             THEN [err |-> "",
                   config |-> [IpScopes |-> IF p.ip_scope.set THEN <<IpScope(p, FALSE)>>
                                            ELSE <<>>,
                               ParentNetwork |-> parent,
                               FenceMode |-> p.fence_mode,
                               Features |-> Features(p)]]
             ELSE [err |-> "EntityNotFoundException", config |-> None]
    ELSE IF p.ip_scope.set
    THEN [err |-> "",
          config |-> [IpScopes |-> <<IpScope(p, TRUE)>>,
                      ParentNetwork |-> None,
                      FenceMode |-> p.fence_mode,
                      Features |-> Features(p)]]
    ELSE [err |-> "NameError", config |-> None]

\* put_linked_resource followed by execute_task (lines 206-212, 292-298).
Put(section, msg, o) ==
    CASE o = "put_failed" ->
            [response |-> NoResponse, submitted |-> <<section>>, tasks |-> 0,
             err |-> "put_failed"]
      [] o = "task_failed" ->
            [response |-> NoResponse, submitted |-> <<section>>, tasks |-> 1,
             err |-> "task_failed"]
      [] OTHER ->
            [response |-> [changed |-> TRUE, msg |-> msg, warnings |-> <<>>],
             submitted |-> <<section>>, tasks |-> 1, err |-> ""]

Warn(w) ==
    [response |-> [changed |-> FALSE, msg |-> <<>>, warnings |-> w],
     submitted |-> <<>>, tasks |-> 0, err |-> ""]

Raise(e) == [response |-> NoResponse, submitted |-> <<>>, tasks |-> 0, err |-> e]

\* Lines 216-302.
add_network(vapp, p, o) ==
    IF get_network(vapp, p.network)
    THEN Warn(<<"is already present", p.network>>)
    ELSE LET c == Configuration(p)
         IN  IF c.err # "" THEN Raise(c.err)
             ELSE Put(Append(vapp, [networkName |-> p.network, Configuration |-> c.config]),
                      <<"has been added", p.network>>, o)

\* Lines 192-214.
delete_network(vapp, p, o) ==
    IF ~get_network(vapp, p.network)
    THEN Warn(<<"is not present", p.network>>)
    ELSE Put(remove_network_config(vapp, p.network), <<"has been deleted", p.network>>, o)

\* Lines 166-172.
manage_states(vapp, p, o) ==
    IF p.state = "present" THEN add_network(vapp, p, o) ELSE delete_network(vapp, p, o)

\* Lines 305-321: one run of the module with parameters p, in check mode or
\* not; exit_json with what manage_states returns, fail_json on an
\* exception.
main(p, chk, o) ==
    /\ net_runs < MaxNetRuns
    /\ LET r == manage_states(vapp_networks, p, o)
       IN  /\ last' = [params |-> p,
                       check_mode |-> chk,
                       before |-> vapp_networks,
                       submitted |-> r.submitted,
                       tasks |-> r.tasks,
                       ended |-> IF r.err = "" THEN "exit_json" ELSE "fail_json",
                       error |-> r.err,
                       response |-> IF r.err = "" THEN r.response
                                    ELSE [NoResponse EXCEPT !.msg = <<r.err>>]]
           /\ vapp_networks' = IF r.err = "" /\ r.submitted # <<>>
                               THEN r.submitted[1]
                               ELSE vapp_networks
    /\ net_runs' = net_runs + 1
    /\ UNCHANGED invvars

InitNetSpec ==
    /\ InitInventory
    /\ net_runs = 0
    /\ vapp_networks \in VAppsIn
    /\ last = NoRun

NetNext == \E p \in Params, chk \in BOOLEAN, o \in Outcomes : main(p, chk, o)

NetSpec == InitNetSpec /\ [][NetNext]_vars

\* ------------------------------------------------ claims on the module
\* The section holds an entry for network n.
Present(section, n) == \E i \in 1..Len(section) : section[i].networkName = n

\* The entries of the section that are not for network n, in order.
Others(section, n) == SelectSeq(section, LAMBDA e : e.networkName # n)

Ran == last.ended # "none"

\* The latest run found the vApp as its state asked for.
AsAsked ==
    \/ last.params.state = "present" /\ Present(last.before, last.params.network)
    \/ last.params.state = "absent" /\ ~Present(last.before, last.params.network)

C14_Truthful ==
    /\ last.ended = "exit_json" =>
          (last.response.changed <=> (Len(last.submitted) = 1 /\ last.tasks = 1))
    /\ (Ran /\ AsAsked) =>
          /\ last.ended = "exit_json"
          /\ last.submitted = <<>>
          /\ last.tasks = 0
          /\ ~last.response.changed
          /\ last.response.warnings # <<>>

C14_SecondRun ==
    (/\ last.ended = "exit_json"
     /\ net_runs' = net_runs + 1
     /\ last'.params = last.params
     /\ last'.ended = "exit_json") => ~last'.response.changed

\* C14: a run that returns reports changed exactly when it submitted an
\* edited NetworkConfigSection (one PUT, one task executed); a run that
\* finds the vApp as its state asks submits nothing and returns changed
\* False with a warning; a run that follows a returned run with the same
\* parameters returns changed False.
C14_ChangedTruthfulIdempotent == [](C14_Truthful) /\ [][C14_SecondRun]_vars

\* A second run of state present on the network the first run created.
C14_Witness ==
    /\ net_runs = 2
    /\ last.ended = "exit_json"
    /\ last.params.state = "present"
    /\ ~last.response.changed
    /\ last.before = vapp_networks
    /\ \E i \in 1..Len(vapp_networks) :
          /\ vapp_networks[i].networkName = last.params.network
          /\ vapp_networks[i].Configuration.FenceMode = last.params.fence_mode

\* C15: a run of state present with fence_mode natRouted and no
\* parent_network submits no NetworkConfigSection and ends in failure.
C15_NatRoutedNeedsParent ==
    (/\ Ran
     /\ last.params.state = "present"
     /\ last.params.fence_mode = "natRouted"
     /\ last.params.parent_network = None) =>
        /\ last.submitted = <<>>
        /\ last.ended = "fail_json"

\* The latest run asked to create a network the code rejects.
Rejected ==
    /\ Ran
    /\ last.params.state = "present"
    /\ ~Present(last.before, last.params.network)
    /\ \/ last.params.parent_network = None /\ ~last.params.ip_scope.set
       \/ /\ last.params.parent_network # None
          /\ last.params.parent_network \notin DOMAIN OrgVdcNetworks

\* C16: a rejected create request ends through fail_json, submits no
\* NetworkConfigSection and leaves the networks of the vApp as they were.
C16_RejectedCreateChangesNothing ==
    Rejected =>
        /\ last.ended = "fail_json"
        /\ last.submitted = <<>>
        /\ vapp_networks = last.before

C16_Witness ==
    /\ Rejected
    /\ last.params.parent_network = "ghost_net"
    /\ last.params.ip_scope.set
    /\ last.before # <<>>

\* C17: every NetworkConfigSection a run submits differs from the one read
\* only in entries named by the network parameter: state absent leaves no
\* entry of that name and all others, state present keeps every entry and
\* adds one of that name.
C17_OnlyNamedNetworkTouched ==
    Ran =>
        \A k \in 1..Len(last.submitted) :
            LET s == last.submitted[k]
                n == last.params.network
            IN  /\ Others(s, n) = Others(last.before, n)
                /\ last.params.state = "absent" => ~Present(s, n)
                /\ last.params.state = "present" =>
                      /\ Len(s) = Len(last.before) + 1
                      /\ SubSeq(s, 1, Len(last.before)) = last.before
                      /\ s[Len(s)].networkName = n
                      /\ ~Present(last.before, n)

\* A removal from a vApp whose first entry is another network.
C17_Witness ==
    /\ last.params.state = "absent"
    /\ last.submitted # <<>>
    /\ Len(last.before) = 2
    /\ last.before[1].networkName # last.params.network
    /\ vapp_networks = <<last.before[1]>>

\* C18: a run in check mode submits no NetworkConfigSection, executes no
\* task and leaves the networks of the vApp as they were.
C18_CheckModeChangesNothing ==
    (Ran /\ last.check_mode) =>
        /\ last.submitted = <<>>
        /\ last.tasks = 0
        /\ vapp_networks = last.before

====
